---- MODULE Spec2Model ----
(***************************************************************************)
(* PyTCP: the TCP header view (tcp_header.py) and the UDP echo service     *)
(* (service_udp_echo.py) as state machines.                                *)
(*                                                                         *)
(* A byte buffer is a sequence of numbers in 0..255, indexed from 1 here   *)
(* and from 0 in the source: source byte k is element k+1.  A Python       *)
(* exception is an outcome of the operation that raises it: results are    *)
(* records [exc, val] with exc = "" when the operation returned.           *)
(***************************************************************************)
EXTENDS Integers, Sequences, FiniteSets, TLC

VARIABLES
    data,               \* TcpHeader.__init__ argument: the raw segment
    ip_pseudo_header,   \* TcpHeader.__init__ argument: [none, items]
    self,               \* the TcpHeader object: [header, data, ip_pseudo_header]
    pc,                 \* "new", then "constructed" or "raised"
    exc,                \* the exception __init__ raised, "" when none
    got,                \* the last accessor read: [name, res]
    opt_pc,             \* options getter: "idle", "scan", "returned", "raised"
    raw_options,        \* options getter: local raw_options
    i,                  \* options getter: local i (0-based cursor)
    options,            \* options getter: local options (the list built so far)
    ck_pc,              \* checksum: "idle", "computed", "compute_raised", "verified", "verify_raised"
    ck,                 \* checksum: [exc, val] of the last checksum operation
    zeroed,             \* checksum: index of the word compute_checksum zeroed, -1 if none
    rxq,                \* echo: datagrams queued in the socket, oldest first
    packet_rx,          \* echo: local packet_rx, <<>> when none is held
    sent,               \* echo: datagrams passed to socket.send_to, in order
    received,           \* echo: datagrams returned by socket.receive_from, in order
    epc,                \* echo: "bind", "receive", "respond", "dead"
    arrived             \* echo: number of datagrams the network has delivered

vars == <<data, ip_pseudo_header, self, pc, exc, got, opt_pc, raw_options, i,
          options, ck_pc, ck, zeroed, rxq, packet_rx, sent, received, epc, arrived>>

tcp_vars == <<data, ip_pseudo_header, self, pc, exc, got, opt_pc, raw_options, i,
              options, ck_pc, ck, zeroed>>

echo_vars == <<rxq, packet_rx, sent, received, epc, arrived>>

----------------------------------------------------------------------------
(* Python primitives                                                        *)

Min(a, b) == IF a < b THEN a ELSE b

Ok(v) == [exc |-> "", val |-> v]

Raise(e) == [exc |-> e, val |-> <<>>]

\* s[a:b] for 0 <= a, 0 <= b: both ends are clamped to len(s), never an error
Slice(s, a, b) == SubSeq(s, Min(a, Len(s)) + 1, Min(b, Len(s)))

\* s[a:]
SliceFrom(s, a) == SubSeq(s, Min(a, Len(s)) + 1, Len(s))

\* s[k] for 0 <= k: IndexError when k >= len(s)
InRange(s, k) == k < Len(s)

RECURSIVE BitAnd(_, _)
\* a & b on non-negative integers
BitAnd(a, b) ==
    IF a = 0 \/ b = 0 THEN 0
    ELSE (a % 2) * (b % 2) + 2 * BitAnd(a \div 2, b \div 2)

\* struct.unpack("!H", s)[0]: struct.error unless len(s) = 2
UnpackH(s) ==
    IF Len(s) # 2 THEN Raise("struct.error") ELSE Ok(s[1] * 256 + s[2])

\* struct.unpack("!L", s)[0]: struct.error unless len(s) = 4
UnpackL(s) ==
    IF Len(s) # 4 THEN Raise("struct.error")
    ELSE Ok(((s[1] * 256 + s[2]) * 256 + s[3]) * 256 + s[4])

\* struct.unpack(f"! {n}H", s): struct.error unless len(s) = 2n
UnpackWords(n, s) ==
    IF Len(s) # 2 * n THEN Raise("struct.error")
    ELSE Ok([k \in 1..n |-> s[2 * k - 1] * 256 + s[2 * k]])

RECURSIVE Sum(_)
\* sum(list)
Sum(s) == IF s = <<>> THEN 0 ELSE s[1] + Sum(Tail(s))

----------------------------------------------------------------------------
(* TcpHeader: construction and field accessors                              *)

NoSelf == [header |-> <<>>, data |-> <<>>,
           ip_pseudo_header |-> [none |-> TRUE, items |-> <<>>]]

\* TcpHeader.__init__: data[12] is read first (IndexError on a buffer of at
\* most 12 bytes), then both slices clamp silently
TcpHeaderInit(d, ph) ==
    IF ~InRange(d, 12) THEN Raise("IndexError")
    ELSE Ok([header |-> Slice(d, 0, d[13] \div 4),
             data |-> SliceFrom(d, d[13] \div 4),
             ip_pseudo_header |-> ph])

source_port(h) == UnpackH(Slice(h, 0, 2))

destination_port(h) == UnpackH(Slice(h, 2, 4))

seq_number(h) == UnpackL(Slice(h, 4, 8))

ack_number(h) == UnpackL(Slice(h, 8, 12))

data_offset(h) == IF ~InRange(h, 12) THEN Raise("IndexError") ELSE Ok(h[13] \div 4)

FlagBit(h, mask) ==
    IF ~InRange(h, 13) THEN Raise("IndexError") ELSE Ok(BitAnd(h[14], mask) # 0)

\* flag_urg reading bit 6, one place too high
flag_urg_bit6(h) == FlagBit(h, 64)

flag_urg(h) == FlagBit(h, 32)

flag_ack(h) == FlagBit(h, 16)

flag_psh(h) == FlagBit(h, 8)

flag_rst(h) == FlagBit(h, 4)

flag_syn(h) == FlagBit(h, 2)

flag_fin(h) == FlagBit(h, 1)

window(h) == UnpackH(Slice(h, 14, 16))

checksum(h) == UnpackH(Slice(h, 16, 18))

urgent_pointer(h) == UnpackH(Slice(h, 18, 20))

Accessors ==
    {"source_port", "destination_port", "seq_number", "ack_number", "data_offset",
     "flag_urg", "flag_ack", "flag_psh", "flag_rst", "flag_syn", "flag_fin",
     "window", "checksum", "urgent_pointer"}

Read(name, h) ==
    CASE name = "source_port" -> source_port(h)
      [] name = "destination_port" -> destination_port(h)
      [] name = "seq_number" -> seq_number(h)
      [] name = "ack_number" -> ack_number(h)
      [] name = "data_offset" -> data_offset(h)
      [] name = "flag_urg" -> flag_urg(h)
      [] name = "flag_ack" -> flag_ack(h)
      [] name = "flag_psh" -> flag_psh(h)
      [] name = "flag_rst" -> flag_rst(h)
      [] name = "flag_syn" -> flag_syn(h)
      [] name = "flag_fin" -> flag_fin(h)
      [] name = "window" -> window(h)
      [] name = "checksum" -> checksum(h)
      [] name = "urgent_pointer" -> urgent_pointer(h)

\* TcpHeader(data, ip_pseudo_header)
Construct ==
    /\ pc = "new"
    /\ LET r == TcpHeaderInit(data, ip_pseudo_header) IN
         IF r.exc # ""
         THEN pc' = "raised" /\ exc' = r.exc /\ UNCHANGED self
         ELSE pc' = "constructed" /\ self' = r.val /\ UNCHANGED exc
    /\ UNCHANGED <<data, ip_pseudo_header, got, opt_pc, raw_options, i, options,
                   ck_pc, ck, zeroed>>
    /\ UNCHANGED echo_vars

\* one property read on a constructed view
Get ==
    /\ pc = "constructed"
    /\ \E name \in Accessors : got' = [name |-> name, res |-> Read(name, self.header)]
    /\ UNCHANGED <<data, ip_pseudo_header, self, pc, exc, opt_pc, raw_options, i,
                   options, ck_pc, ck, zeroed>>
    /\ UNCHANGED echo_vars

----------------------------------------------------------------------------
(* TcpOption and the options getter                                         *)

\* TcpOption.__init__ keeping whatever slice it is given, without reading data[1]
TcpOptionInitUnchecked(d) == Ok(d)

\* TcpOption.__init__: data[1] is read first (IndexError on fewer than two
\* bytes), then data[:data[1]] clamps silently
TcpOptionInit(d) ==
    IF ~InRange(d, 1) THEN Raise("IndexError") ELSE Ok(Slice(d, 0, d[2]))

\* the class the options getter instantiates for a kind byte other than 0 and 1
OptionClass(kind) ==
    CASE kind = 2 -> "TcpOptionMss"
      [] kind = 3 -> "TcpOptionWscale"
      [] kind = 4 -> "TcpOptionSackPerm"
      [] kind = 8 -> "TcpOptionTimestamp"
      [] OTHER -> "TcpOption"

\* the cursor advanced as if the length byte did not count the kind and length bytes
AdvanceExclusiveLength(raw, c) == c + raw[c + 2] + 2

\* the cursor after an option was appended: i += raw_options[i + 1]
Advance(raw, c) == c + raw[c + 2]

\* TcpOptionMss.size, TcpOptionWscale.scale, TcpOptionTimestamp.tsval / tsecr
size(o) == UnpackH(Slice(o.option, 2, 4))

scale(o) == IF ~InRange(o.option, 2) THEN Raise("IndexError") ELSE Ok(o.option[3])

tsval(o) == UnpackL(Slice(o.option, 2, 6))

tsecr(o) == UnpackL(Slice(o.option, 6, 10))

\* options getter, up to the loop: raw_options = self.header[20:self.data_offset]
OptionsBegin ==
    /\ pc = "constructed"
    /\ opt_pc = "idle"
    /\ LET off == data_offset(self.header) IN
         IF off.exc # ""
         THEN /\ opt_pc' = "raised"
              /\ UNCHANGED <<raw_options, i, options>>
         ELSE /\ opt_pc' = "scan"
              /\ raw_options' = Slice(self.header, 20, off.val)
              /\ i' = 0
              /\ options' = <<>>
    /\ UNCHANGED <<data, ip_pseudo_header, self, pc, exc, got, ck_pc, ck, zeroed>>
    /\ UNCHANGED echo_vars

\* options getter: the loop test and one pass through the loop body
OptionsStep ==
    /\ opt_pc = "scan"
    /\ IF ~(i < Len(raw_options))
       THEN opt_pc' = "returned" /\ UNCHANGED <<i, options>>
       ELSE IF raw_options[i + 1] = 0
       THEN opt_pc' = "returned" /\ UNCHANGED <<i, options>>
       ELSE IF raw_options[i + 1] = 1
       THEN i' = i + 1 /\ UNCHANGED <<opt_pc, options>>
       ELSE IF ~InRange(raw_options, i + 1)
       THEN opt_pc' = "raised" /\ UNCHANGED <<i, options>>
       ELSE LET o == TcpOptionInit(Slice(raw_options, i, i + raw_options[i + 2])) IN
              IF o.exc # ""
              THEN opt_pc' = "raised" /\ UNCHANGED <<i, options>>
              ELSE /\ options' = Append(options,
                                        [class |-> OptionClass(raw_options[i + 1]),
                                         option |-> o.val])
                   /\ i' = Advance(raw_options, i)
                   /\ UNCHANGED opt_pc
    /\ UNCHANGED <<data, ip_pseudo_header, self, pc, exc, got, raw_options,
                   ck_pc, ck, zeroed>>
    /\ UNCHANGED echo_vars

----------------------------------------------------------------------------
(* TcpHeader.compute_checksum and the verdict of __str__                    *)

\* the word compute_checksum zeroes: checksum_data[6 + 8]
ZeroIndex == 14

\* lines 275-280: pad the payload, then list the pseudo-header items, the
\* header words and the payload words (in that order of evaluation)
ChecksumData(s) ==
    LET d == IF Len(s.data) % 2 = 1 THEN Append(s.data, 0) ELSE s.data
        off == data_offset(s.header)
        hw == UnpackWords(off.val \div 2, s.header)
        dw == UnpackWords(Len(d) \div 2, d)
    IN  IF s.ip_pseudo_header.none THEN Raise("TypeError")
        ELSE IF off.exc # "" THEN off
        ELSE IF hw.exc # "" THEN hw
        ELSE Ok(s.ip_pseudo_header.items \o hw.val \o dw.val)

\* line 284: ~((checksum & 0xFFFF) + (checksum >> 16)) & 0xFFFF
FoldAndComplement(c) == 65535 - (((c % 65536) + (c \div 65536)) % 65536)

compute_checksum(s) ==
    LET cd == ChecksumData(s) IN
      IF cd.exc # "" THEN cd
      ELSE IF ~InRange(cd.val, ZeroIndex) THEN Raise("IndexError")
      ELSE Ok(FoldAndComplement(Sum([cd.val EXCEPT ![ZeroIndex + 1] = 0])))

\* line 294: self.compute_checksum() == self.checksum
ChecksumVerdict(s) ==
    LET c == compute_checksum(s)
        f == checksum(s.header)
    IN  IF c.exc # "" THEN c
        ELSE IF f.exc # "" THEN f
        ELSE Ok(c.val = f.val)

ComputeChecksum ==
    /\ pc = "constructed"
    /\ ck_pc = "idle"
    /\ ck' = compute_checksum(self)
    /\ ck_pc' = IF ck'.exc = "" THEN "computed" ELSE "compute_raised"
    /\ zeroed' = IF ck'.exc = "" THEN ZeroIndex ELSE -1
    /\ UNCHANGED <<data, ip_pseudo_header, self, pc, exc, got, opt_pc, raw_options,
                   i, options>>
    /\ UNCHANGED echo_vars

Verify ==
    /\ pc = "constructed"
    /\ ck_pc = "idle"
    /\ ck' = ChecksumVerdict(self)
    /\ ck_pc' = IF ck'.exc = "" THEN "verified" ELSE "verify_raised"
    /\ UNCHANGED <<data, ip_pseudo_header, self, pc, exc, got, opt_pc, raw_options,
                   i, options, zeroed>>
    /\ UNCHANGED echo_vars

----------------------------------------------------------------------------
(* ServiceUdpEcho: text primitives                                          *)

IsCont(b) == 128 <= b /\ b <= 191

RECURSIVE Utf8Decode(_)
\* str(b, "utf-8"): the code points of b, UnicodeDecodeError on an invalid start
\* byte, an invalid continuation, an overlong or surrogate form, or a cut sequence
Utf8Decode(b) ==
    IF b = <<>> THEN Ok(<<>>)
    ELSE LET n == Len(b)
             b1 == b[1]
             need == IF b1 < 128 THEN 1
                     ELSE IF 194 <= b1 /\ b1 <= 223 THEN 2
                     ELSE IF 224 <= b1 /\ b1 <= 239 THEN 3
                     ELSE IF 240 <= b1 /\ b1 <= 244 THEN 4
                     ELSE 0
             wellformed ==
                 /\ need # 0
                 /\ n >= need
                 /\ \A k \in 2..need : IsCont(b[k])
                 /\ b1 = 224 => b[2] >= 160
                 /\ b1 = 237 => b[2] <= 159
                 /\ b1 = 240 => b[2] >= 144
                 /\ b1 = 244 => b[2] <= 143
             cp == CASE need = 1 -> b1
                     [] need = 2 -> (b1 % 32) * 64 + (b[2] % 64)
                     [] need = 3 -> ((b1 % 16) * 64 + (b[2] % 64)) * 64 + (b[3] % 64)
                     [] need = 4 -> (((b1 % 8) * 64 + (b[2] % 64)) * 64 + (b[3] % 64)) * 64
                                    + (b[4] % 64)
             rest == Utf8Decode(SubSeq(b, need + 1, n))
         IN  IF ~wellformed THEN Raise("UnicodeDecodeError")
             ELSE IF rest.exc # "" THEN rest
             ELSE Ok(<<cp>> \o rest.val)

RECURSIVE Utf8Encode(_)
\* bytes(s, "utf-8") for a string without surrogates
Utf8Encode(s) ==
    IF s = <<>> THEN <<>>
    ELSE LET c == s[1]
             enc == IF c < 128 THEN <<c>>
                    ELSE IF c < 2048 THEN <<192 + (c \div 64), 128 + (c % 64)>>
                    ELSE IF c < 65536
                         THEN <<224 + (c \div 4096), 128 + ((c \div 64) % 64),
                                128 + (c % 64)>>
                    ELSE <<240 + (c \div 262144), 128 + ((c \div 4096) % 64),
                           128 + ((c \div 64) % 64), 128 + (c % 64)>>
         IN  enc \o Utf8Encode(Tail(s))

\* str.isspace of one code point
IsSpace(c) ==
    \/ c \in {9, 10, 11, 12, 13, 28, 29, 30, 31, 32, 133, 160, 5760}
    \/ 8192 <= c /\ c <= 8202
    \/ c \in {8232, 8233, 8239, 8287, 12288}

RECURSIVE LStrip(_)
LStrip(s) == IF s # <<>> /\ IsSpace(s[1]) THEN LStrip(Tail(s)) ELSE s

RECURSIVE RStrip(_)
RStrip(s) ==
    IF s # <<>> /\ IsSpace(s[Len(s)]) THEN RStrip(SubSeq(s, 1, Len(s) - 1)) ELSE s

\* str.strip()
Strip(s) == RStrip(LStrip(s))

\* str.lower() on the Basic Latin and Latin-1 letters
LowerChar(c) ==
    IF 65 <= c /\ c <= 90 THEN c + 32
    ELSE IF 192 <= c /\ c <= 222 /\ c # 215 THEN c + 32
    ELSE c

Lower(s) == [k \in 1..Len(s) |-> LowerChar(s[k])]

\* needle in s
Contains(needle, s) ==
    \E k \in 0..(Len(s) - Len(needle)) : SubSeq(s, k + 1, k + Len(needle)) = needle

RECURSIVE Split(_, _)
\* s.split(sep) for a one-character separator
Split(s, sep) ==
    IF \A k \in 1..Len(s) : s[k] # sep THEN <<s>>
    ELSE LET p == CHOOSE k \in 1..Len(s) : s[k] = sep /\ \A j \in 1..(k - 1) : s[j] # sep
         IN  <<SubSeq(s, 1, p - 1)>> \o Split(SubSeq(s, p + 1, Len(s)), sep)

\* "malpka", "malpa", "malpi"
StrMalpka == <<109, 97, 108, 112, 107, 97>>

StrMalpa == <<109, 97, 108, 112, 97>>

StrMalpi == <<109, 97, 108, 112, 105>>

\* malpi.malpka and malpi.malpa: two multi-line pictures
malpka == <<75, 49, 10, 75, 50>>

malpa == <<65, 49, 10, 65, 50, 10, 65, 51>>

RECURSIVE ZipLines(_, _)
\* lines 80-82: the lines of both pictures side by side, as many as the shorter has
ZipLines(ks, as) ==
    IF ks = <<>> \/ as = <<>> THEN <<>>
    ELSE Utf8Encode(ks[1] \o as[1] \o <<10>>) \o ZipLines(Tail(ks), Tail(as))

\* lines 73-82: the reply payload for a received payload
EchoMessage(message) ==
    LET t == Utf8Decode(message) IN
      IF t.exc # "" THEN t
      ELSE IF Contains(StrMalpka, Lower(Strip(t.val))) THEN Ok(Utf8Encode(malpka))
      ELSE IF Contains(StrMalpa, Lower(Strip(t.val))) THEN Ok(Utf8Encode(malpa))
      ELSE IF Contains(StrMalpi, Lower(Strip(t.val)))
           THEN Ok(ZipLines(Split(malpka, 10), Split(malpa, 10)))
      ELSE Ok(message)

\* lines 84-91: UdpMetadata(...) for the reply to rx
PacketTx(rx, message) ==
    [local_ip_address |-> rx.local_ip_address,
     local_port |-> rx.local_port,
     remote_ip_address |-> rx.remote_ip_address,
     remote_port |-> rx.remote_port,
     raw_data |-> message,
     tracker |-> <<"TX", rx.tracker>>]

----------------------------------------------------------------------------
(* ServiceUdpEcho: the worker thread and its socket                         *)

\* number of datagrams the network delivers
MaxDatagrams == 3

Payloads ==
    {<<>>, <<104, 105>>, <<77, 65, 76, 80, 75, 65, 10>>, <<32, 109, 97, 108, 112, 97>>,
     <<120, 109, 97, 108, 112, 105>>, <<195, 169>>, <<255>>, <<104, 195>>}

Remotes == {<<"10.0.0.2", 5000>>, <<"10.0.0.3", 6000>>}

\* the network queues a datagram for the bound socket
Arrive ==
    /\ arrived < MaxDatagrams
    /\ \E m \in Payloads, r \in Remotes :
         rxq' = Append(rxq, [local_ip_address |-> "10.0.0.1",
                             local_port |-> 7,
                             remote_ip_address |-> r[1],
                             remote_port |-> r[2],
                             raw_data |-> m,
                             tracker |-> <<"RX", arrived>>])
    /\ arrived' = arrived + 1
    /\ UNCHANGED <<packet_rx, sent, received, epc>>
    /\ UNCHANGED tcp_vars

\* lines 64-66: the socket is created and bound
Bind ==
    /\ epc = "bind"
    /\ epc' = "receive"
    /\ UNCHANGED <<rxq, packet_rx, sent, received, arrived>>
    /\ UNCHANGED tcp_vars

\* lines 69-71: socket.receive_from() blocks until a datagram is queued
ReceiveFrom ==
    /\ epc = "receive"
    /\ rxq # <<>>
    /\ packet_rx' = <<Head(rxq)>>
    /\ rxq' = Tail(rxq)
    /\ received' = Append(received, Head(rxq))
    /\ epc' = "respond"
    /\ UNCHANGED <<sent, arrived>>
    /\ UNCHANGED tcp_vars

\* lines 73-93: the reply is built and sent; an exception ends the thread
Respond ==
    /\ epc = "respond"
    /\ LET rx == packet_rx[1]
           m == EchoMessage(rx.raw_data)
       IN  IF m.exc # ""
           THEN epc' = "dead" /\ UNCHANGED sent
           ELSE epc' = "receive" /\ sent' = Append(sent, PacketTx(rx, m.val))
    /\ UNCHANGED <<rxq, packet_rx, received, arrived>>
    /\ UNCHANGED tcp_vars

----------------------------------------------------------------------------
(* Inputs                                                                   *)

\* a 20-byte fixed header with the given bytes 12 and 13 and checksum field
FixedHeader(b12, b13, cksum) ==
    <<31, 144, 0, 7, 0, 0, 0, 1, 0, 0, 0, 2, b12, b13, 32, 0,
      cksum \div 256, cksum % 256, 0, 0>>

Zeros(n) == [k \in 1..n |-> 0]

Bytes == 0..255

NoPseudoHeader == [none |-> TRUE, items |-> <<>>]

PseudoHeader(items) == [none |-> FALSE, items |-> items]

EchoIdle ==
    /\ rxq = <<>>
    /\ packet_rx = <<>>
    /\ sent = <<>>
    /\ received = <<>>
    /\ epc = "bind"
    /\ arrived = 0

TcpIdle ==
    /\ self = NoSelf
    /\ pc = "new"
    /\ exc = ""
    /\ got = [name |-> "", res |-> Ok(0)]
    /\ opt_pc = "idle"
    /\ raw_options = <<>>
    /\ i = 0
    /\ options = <<>>
    /\ ck_pc = "idle"
    /\ ck = Ok(0)
    /\ zeroed = -1

\* largest buffer handed to the constructor
MaxBuf == 64

BufLens == {0, 12, 13, 14, 20, 24, MaxBuf}

Byte12Probes == {52, 56, 80, 84, 95, 240}

Byte13Probes == {0, 2, 18, 192, 255}

\* every byte 12 with a few flag bytes, and every flag byte with a few bytes 12,
\* in buffers cut to each length of BufLens
InitHeader ==
    /\ \E b12 \in Bytes, b13 \in Bytes, n \in BufLens :
         /\ b12 \in Byte12Probes \/ b13 \in Byte13Probes
         /\ data = Slice(FixedHeader(b12, b13, 0) \o Zeros(MaxBuf - 20), 0, n)
    /\ ip_pseudo_header = NoPseudoHeader
    /\ TcpIdle
    /\ EchoIdle

NextHeader == Construct \/ Get

SpecHeader == InitHeader /\ [][NextHeader]_vars

\* number of chunks an option region is assembled from
MaxChunks == 3

\* end, no-op, MSS 1460, window scale 7, SACK permitted, timestamp 1 / 2, two
\* unrecognised kinds; then length 0, length 1, a lone kind byte, an overrun
Chunks ==
    {<<0>>, <<1>>, <<2, 4, 5, 180>>, <<3, 3, 7>>, <<4, 2>>,
     <<8, 10, 0, 0, 0, 1, 0, 0, 0, 2>>, <<5, 2>>, <<254, 4, 1, 1>>,
     <<2, 0>>, <<3, 1>>, <<4>>, <<3, 9, 1>>}

RECURSIVE Regions(_)
Regions(k) ==
    IF k = 0 THEN {<<>>}
    ELSE LET R == Regions(k - 1) IN R \cup {c \o r : c \in Chunks, r \in R}

\* a segment whose byte 12 makes the header end where the option region ends
InitOptions ==
    /\ \E r \in Regions(MaxChunks) :
         data = FixedHeader(4 * (20 + Len(r)), 2, 0) \o r
    /\ ip_pseudo_header = NoPseudoHeader
    /\ TcpIdle
    /\ EchoIdle

NextOptions == Construct \/ OptionsBegin \/ OptionsStep

SpecOptions == InitOptions /\ [][NextOptions]_vars

\* longest byte string that follows the fixed header in a checksum input
MaxTail == 4

TailBytes == {0, 255}

RECURSIVE Strings(_, _)
\* the sequences over alphabet A of length at most n
Strings(A, n) ==
    IF n = 0 THEN {<<>>}
    ELSE LET S == Strings(A, n - 1) IN S \cup {<<a>> \o t : a \in A, t \in S}

ChecksumByte12 == {64, 80, 84, 96}

ChecksumFields == {0, 4660, 65535}

PseudoLens == {4, 6, 7}

PseudoWords == {0, 1, 28732, 65535}

\* a pseudo-header of n items: two varied words, zeros, protocol 6, a length
PseudoItems(n, w1, w2) == <<w1, w2>> \o Zeros(n - 4) \o <<6, 20>>

InitChecksum ==
    /\ \E b12 \in ChecksumByte12, f \in ChecksumFields, t \in Strings(TailBytes, MaxTail) :
         data = FixedHeader(b12, 16, f) \o t
    /\ \/ ip_pseudo_header = NoPseudoHeader
       \/ \E n \in PseudoLens, w1 \in PseudoWords, w2 \in PseudoWords :
            ip_pseudo_header = PseudoHeader(PseudoItems(n, w1, w2))
    /\ TcpIdle
    /\ EchoIdle

NextChecksum == Construct \/ ComputeChecksum \/ Verify

SpecChecksum == InitChecksum /\ [][NextChecksum]_vars

InitEcho ==
    /\ data = <<>>
    /\ ip_pseudo_header = NoPseudoHeader
    /\ TcpIdle
    /\ EchoIdle

NextEcho == Arrive \/ Bind \/ ReceiveFrom \/ Respond

SpecEcho == InitEcho /\ [][NextEcho]_vars

----------------------------------------------------------------------------
(* Claims                                                                   *)

\* the header length a buffer declares: the high nibble of byte 12, times 4
DeclaredLength(b12) == (b12 \div 16) * 4

\* bit k of byte b
Bit(b, k) == (b \div (2 ^ k)) % 2 = 1

\* C1: a buffer shorter than 20 bytes, or shorter than the header length it
\* declares, is rejected by the constructor; no view is built from it.
C1_ShortBufferRejected ==
    (pc # "new" /\ (Len(data) < 20 \/ Len(data) < DeclaredLength(data[13])))
        => pc = "raised"

\* C2: on every constructed view data_offset returns the high nibble of header
\* byte 12 times 4, a multiple of 4 in 20..60, whatever the low nibble holds
\* (stated here for buffers that hold the whole header they declare).
C2_DataOffsetFromHighNibble ==
    (/\ pc = "constructed"
     /\ got.name = "data_offset"
     /\ DeclaredLength(data[13]) \in 20..60
     /\ Len(data) >= DeclaredLength(data[13]))
        => /\ got.res.exc = ""
           /\ got.res.val = DeclaredLength(data[13])
           /\ got.res.val \in 20..60
           /\ got.res.val % 4 = 0

FlagNames == {"flag_urg", "flag_ack", "flag_psh", "flag_rst", "flag_syn", "flag_fin"}

FlagPosition(name) ==
    CASE name = "flag_urg" -> 5
      [] name = "flag_ack" -> 4
      [] name = "flag_psh" -> 3
      [] name = "flag_rst" -> 2
      [] name = "flag_syn" -> 1
      [] name = "flag_fin" -> 0

\* C9: each flag accessor, read on a view whose header holds byte 13, returns
\* exactly its own bit of that byte (URG 5, ACK 4, PSH 3, RST 2, SYN 1, FIN 0).
C9_FlagsReportOwnBit ==
    (pc = "constructed" /\ got.name \in FlagNames /\ Len(self.header) >= 14)
        => got.res = Ok(Bit(data[14], FlagPosition(got.name)))

\* C9 witness: URG read as clear from a flag byte whose other seven bits are set.
C9_Witness ==
    /\ pc = "constructed"
    /\ got.name = "flag_urg"
    /\ Len(self.header) >= 14
    /\ data[14] = 223
    /\ got.res = Ok(FALSE)

RECURSIVE WellFormedFrom(_, _)
\* from 0-based cursor c on, every option of a kind other than 0 and 1 met before
\* a kind-0 byte has a length byte >= 2 and lies inside region r
WellFormedFrom(r, c) ==
    IF c >= Len(r) \/ r[c + 1] = 0 THEN TRUE
    ELSE IF r[c + 1] = 1 THEN WellFormedFrom(r, c + 1)
    ELSE /\ c + 1 < Len(r)
         /\ r[c + 2] >= 2
         /\ c + r[c + 2] <= Len(r)
         /\ WellFormedFrom(r, c + r[c + 2])

Variant(kind) ==
    IF kind = 2 THEN "TcpOptionMss"
    ELSE IF kind = 3 THEN "TcpOptionWscale"
    ELSE IF kind = 4 THEN "TcpOptionSackPerm"
    ELSE IF kind = 8 THEN "TcpOptionTimestamp"
    ELSE "TcpOption"

RECURSIVE DecodedFrom(_, _)
\* the records of the options of region r from cursor c up to the first kind-0
\* byte, the end of the region, or the first option that is not well formed
DecodedFrom(r, c) ==
    IF c >= Len(r) \/ r[c + 1] = 0 THEN <<>>
    ELSE IF r[c + 1] = 1 THEN DecodedFrom(r, c + 1)
    ELSE IF c + 1 < Len(r) /\ r[c + 2] >= 2 /\ c + r[c + 2] <= Len(r)
         THEN <<[class |-> Variant(r[c + 1]), option |-> SubSeq(r, c + 1, c + r[c + 2])]>>
              \o DecodedFrom(r, c + r[c + 2])
    ELSE <<>>

ScanEnded == opt_pc \in {"returned", "raised"}

\* C3: on a region holding an option that is not well formed, the scan returns
\* (it does not raise) exactly the options decoded before that option.
C3_MalformedOptionsYieldPrefix ==
    (pc = "constructed" /\ ScanEnded /\ ~WellFormedFrom(raw_options, 0))
        => /\ opt_pc = "returned"
           /\ options = DecodedFrom(raw_options, 0)

\* C4: every pass of the scan loop either ends the scan or moves the cursor
\* forward from a position inside the region, so the scan terminates.
C4_ScanStopsOrAdvances ==
    [][opt_pc = "scan" => (opt_pc' # "scan" \/ (i < Len(raw_options) /\ i' > i))]_vars

\* C4 witness: the scan ended at an option of kind 2 that declares length 0.
C4_Witness ==
    /\ ScanEnded
    /\ i + 1 < Len(raw_options)
    /\ raw_options[i + 1] = 2
    /\ raw_options[i + 2] = 0

\* C5: on a well-formed region the scan returns one record per option before the
\* first kind-0 byte, in order, each of its kind's class and of its declared length.
C5_WellFormedOptionsDecoded ==
    (pc = "constructed" /\ ScanEnded /\ WellFormedFrom(raw_options, 0))
        => /\ opt_pc = "returned"
           /\ options = DecodedFrom(raw_options, 0)
           /\ \A k \in 1..Len(options) : Len(options[k].option) = options[k].option[2]

\* C5 witness: no-op, MSS 1460, an unrecognised kind: two records in order.
C5_Witness ==
    /\ opt_pc = "returned"
    /\ raw_options = <<1, 2, 4, 5, 180, 254, 4, 1, 1>>
    /\ Len(options) = 2
    /\ options[1].class = "TcpOptionMss"
    /\ size(options[1]) = Ok(1460)
    /\ options[2] = [class |-> "TcpOption", option |-> <<254, 4, 1, 1>>]

RECURSIVE FoldCarries(_)
\* end-around carry, repeated until the sum fits 16 bits
FoldCarries(c) == IF c < 65536 THEN c ELSE FoldCarries((c % 65536) + (c \div 65536))

InternetChecksum(words) == 65535 - FoldCarries(Sum(words))

\* the big-endian 16-bit words of an even-length byte string
Words(b) == [k \in 1..(Len(b) \div 2) |-> b[2 * k - 1] * 256 + b[2 * k]]

\* s with the header's checksum field (bytes 16 and 17) set to v
WithChecksumField(s, v) ==
    [s EXCEPT !.header = [@ EXCEPT ![17] = v \div 256, ![18] = v % 256]]

\* pseudo-header, header with the checksum field zeroed, payload padded to even length
ChecksumStream(s) ==
    s.ip_pseudo_header.items
        \o Words(WithChecksumField(s, 0).header)
        \o Words(IF Len(s.data) % 2 = 1 THEN Append(s.data, 0) ELSE s.data)

\* C6: compute_checksum returns the Internet checksum of the stream, with the
\* carries folded until none remains (here with the 6-word pseudo-header).
C6_ChecksumFoldsAllCarries ==
    (ck_pc = "computed" /\ Len(self.ip_pseudo_header.items) = 6 /\ Len(self.header) >= 20)
        => ck.val = InternetChecksum(ChecksumStream(self))

\* C7: the word zeroed is the header's checksum field, found from the length of
\* the pseudo-header, so the result does not depend on the stored checksum.
C7_ZeroesChecksumField ==
    (ck_pc = "computed" /\ Len(self.header) >= 20)
        => /\ zeroed = Len(self.ip_pseudo_header.items) + 8
           /\ \A v \in {0, 4660, 65535} : compute_checksum(WithChecksumField(self, v)) = ck

\* C8: verifying the checksum of a view that has a pseudo-header ends with a
\* boolean verdict, never with an exception.
C8_VerdictNeverRaises ==
    (ck_pc \in {"verified", "verify_raised"} /\ ~self.ip_pseudo_header.none)
        => /\ ck_pc = "verified"
           /\ ck.val \in BOOLEAN

SameEndpoints(tx, rx) ==
    /\ tx.remote_ip_address = rx.remote_ip_address
    /\ tx.remote_port = rx.remote_port
    /\ tx.local_ip_address = rx.local_ip_address
    /\ tx.local_port = rx.local_port

\* C10: the worker never ends; whenever it waits to receive it has sent one reply
\* per datagram received, each to the sender of the datagram it answers.
C10_EveryDatagramEchoed ==
    /\ epc # "dead"
    /\ epc \in {"bind", "receive"} => Len(sent) = Len(received)
    /\ epc = "respond" => Len(sent) = Len(received) - 1
    /\ \A k \in 1..Len(sent) : SameEndpoints(sent[k], received[k])

====
